---- MODULE Spec2Model ----
(***************************************************************************)
(* The WhatsApp outbound-messaging gate of the matrimony backend:          *)
(*   app/core/rule_engine.py        (tier lookup, daily limits)            *)
(*   app/core/content_moderator.py  (moderation pipeline, strikes, queue)  *)
(*   app/core/whatsapp_sender.py    (send_message, cost tracking)          *)
(*   app/domains/whatsapp/api.py    (admin review, block, unblock)         *)
(* and the notification handler that shares the admin alert list with it:  *)
(*   app/core/notification_handler.py (push, e-mail, SMS, failure counter) *)
(*                                                                         *)
(* A handler is written as an operator that takes the world w (the         *)
(* key/value store, the database tables, and what this request has done so *)
(* far: the calls it made, the provider calls, the notifications, the rows *)
(* it added to the write-only message log) and returns                     *)
(*   [w |-> the world after, exc |-> "none" or the exception raised,       *)
(*    val |-> the value returned].                                         *)
(* The key/value client, the database session, the AI provider and the     *)
(* WhatsApp provider are collaborators that honour their contract.  What a *)
(* provider answers is an input of the request, drawn when the handler     *)
(* asks for it: a handler that reaches a provider call with no answer left *)
(* ends "await ...", the request stays pending with the state untouched,   *)
(* and the action Answer adds one answer and runs the handler again.  A    *)
(* request changes the state once, when its handler has run to its end.    *)
(*                                                                         *)
(* SpecRace and SpecLimit serve requests as tasks instead: a task runs     *)
(* from one store, database or provider call to the next, changes the      *)
(* state at each run, and other tasks run in between.                      *)
(*                                                                         *)
(* A message is represented by what the two rule sets see of it: the set   *)
(* of harmful rules and the set of suspicious rules that re.search finds   *)
(* in it.                                                                  *)
(***************************************************************************)
EXTENDS Integers, Sequences, FiniteSets, TLC

VARIABLES
    users,                        \* table users: id -> [exists, subscription_tier, whatsapp]
    openai_enabled,               \* ContentModerator.openai_enabled
    enabled,                      \* WhatsAppSender.enabled
    blocked_user,                 \* store keys blocked_user:{id}: 0 = absent, else TTL in days
    violation_count,              \* store keys violation_count:{id}
    user_tier,                    \* store keys user_tier:{id}: "none" = absent, else cached tier
    whatsapp_admin_review_queue,  \* store list, head first
    admin_alerts,                 \* store list, head first
    whatsapp_cost,                \* store keys whatsapp_cost:{id}:{month}, in thousandths
    content_violations,           \* table content_violations: rows per sender and severity
    whatsapp_admin_reviews,       \* table whatsapp_admin_reviews
    notification_failures,        \* store key notification_failures: 0 = absent
    fcm_initialized,              \* NotificationHandler.fcm_initialized
    daily_limit,                  \* store keys limit:{id}:{action}:{day}: 0 = absent
    tasks,                        \* the calls in flight: where each one stands, its locals
    ret                           \* the last request: its inputs, its outcome, the calls it
                                  \* made, the rows it added to whatsapp_message_log

vars == <<users, openai_enabled, enabled, blocked_user, violation_count, user_tier,
          whatsapp_admin_review_queue, admin_alerts, whatsapp_cost, content_violations,
          whatsapp_admin_reviews, notification_failures, fcm_initialized, daily_limit,
          tasks, ret>>

NULL == "NULL"

----------------------------------------------------------------------------
(* Bounds of the model *)

MaxStrikes == 4          \* no request is started once a sender has this many strikes
MaxHarmfulRule == 1      \* messages match harmful rules 1..MaxHarmfulRule only
MaxSuspiciousRule == 2   \* messages match suspicious rules 1..MaxSuspiciousRule only
MaxQueue == 2
MaxAlerts == 102            \* items in the review queue of the admin specification

----------------------------------------------------------------------------
(* Program constants *)

\* content_moderator.py:15-25, one name per regular expression, in order
HARMFUL_PATTERNS ==
    <<"violence", "fraud", "explicit", "drug", "weapon", "hate", "card16", "ssn", "password">>

\* content_moderator.py:28-35
SUSPICIOUS_PATTERNS ==
    <<"meet", "money", "urgent", "messenger", "phone", "email">>

SuspiciousThreshold == 2      \* content_moderator.py:134
StrikeThreshold == 3          \* content_moderator.py:209
AutoBlockDays == 7            \* content_moderator.py:210
ManualBlockDays == 30         \* whatsapp/api.py:207
CostPerMessage == 5           \* whatsapp_sender.py:146, 0.005 in thousandths
admin_alert_threshold == 10   \* notification_handler.py:19
AlertListSize == 100          \* notification_handler.py:227, ltrim 0 .. 99
PendingPageSize == 50  \* api.py:62, lrange 0 .. 49
CostAlertThreshold == 100000  \* whatsapp_sender.py:151, 100 in thousandths

UserTier == [FREE |-> "free", PREMIUM |-> "premium", ELITE |-> "elite"]

\* The names bound at module level in content_moderator.py (imports at lines 2-7 and the
\* definitions at 9, 11, 277).  datetime and json are not among them; _queue_admin_review
\* imports json locally (line 235).
content_moderator_globals ==
    {"re", "Dict", "Tuple", "openai", "settings", "redis_client", "logging", "logger",
     "ContentModerator", "content_moderator"}

\* The names bound at module level in whatsapp_sender.py (lines 2-9, 11, 182).
whatsapp_sender_globals ==
    {"aiohttp", "Dict", "Any", "settings", "content_moderator", "rule_engine", "UserTier",
     "logging", "logger", "WhatsAppSender", "whatsapp_sender"}

\* The names defined by app/tasks/notifications.py.
tasks_notifications_names ==
    {"send_push_notification", "_send_push_notification_async", "send_email_notification",
     "_send_email_notification_async", "_render_daily_matches_email", "send_sms_notification",
     "create_notification_batch", "create_notification", "_create_notification_async",
     "send_bulk_notification", "cleanup_old_notifications", "_cleanup_old_notifications_async"}

----------------------------------------------------------------------------
(* Values *)

UserIds == {1, 2}

\* The calls that can be in flight together, and a call that has not been made.
Tasks == {1, 2}
IdleTask == [pc |-> "idle"]

\* The actions the engagement endpoints pass to check_daily_limit
\* (domains/engagement/api.py lines 81, 161).
LimitedActions == {"profile_views", "interests"}

\* The messages of the model match the first k harmful and the first l suspicious rules.
Messages ==
    [h : {1 .. k : k \in 0 .. MaxHarmfulRule}, s : {1 .. l : l \in 0 .. MaxSuspiciousRule}]

\* What a provider call can be answered: the call raises, or it returns these words.
\* Moderation.create returns flagged or clean; ChatCompletion.create returns the reply
\* (its words after strip(), none for an empty reply); the WhatsApp API returns a status.
Raises == [raises |-> TRUE, words |-> <<>>]
Returns(words) == [raises |-> FALSE, words |-> words]
Answers(call) ==
    CASE call = "await openai.Moderation.create" ->
             {Raises, Returns(<<"flagged">>), Returns(<<"clean">>)}
      [] call = "await openai.ChatCompletion.create" ->
             {Raises, Returns(<<"UNSAFE", "scam">>), Returns(<<"SAFE", "fine">>), Returns(<<>>)}
      [] call = "await session.post" ->
             {Raises, Returns(<<"200">>), Returns(<<"500">>)}
      [] call = "await credentials.Certificate" -> {Raises, Returns(<<"cred">>)}
      [] call = "await _get_device_tokens" ->
             {Raises, Returns(<<>>), Returns(<<"token">>)}
      [] call = "await messaging.send_multicast" ->
             {Raises, Returns(<<"sent">>), Returns(<<"sent", "failed token">>)}
      [] call = "await EmailSender.send" ->
             {Raises, Returns(<<"success">>), Returns(<<"error">>)}
      [] call = "await _get_user_phone" -> {Raises, Returns(<<>>), Returns(<<"+91">>)}
      [] call = "await SMSSender.send" ->
             {Raises, Returns(<<"success">>), Returns(<<"error">>)}
      [] OTHER -> {}

Ok(w, v) == [w |-> w, exc |-> "none", val |-> v]
Raise(w, e) == [w |-> w, exc |-> e, val |-> NULL]
T(w, ev) == [w EXCEPT !.trace = Append(@, ev)]
Awaiting(r) ==
    r.exc \in {"await openai.Moderation.create", "await openai.ChatCompletion.create",
               "await session.post", "await credentials.Certificate",
               "await _get_device_tokens", "await messaging.send_multicast",
               "await EmailSender.send", "await _get_user_phone", "await SMSSender.send"}

\* A provider call: the next answer, or "await" when the request has none left.
Call(w0, call) ==
    LET w == [T(w0, call) EXCEPT !.answers = Tail(@)]
    IN  IF w0.answers = <<>> THEN Raise(w0, "await " \o call)
        ELSE IF Head(w0.answers).raises THEN Raise(w, "Exception")
        ELSE Ok(w, Head(w0.answers).words)

\* A request served as a task: it runs from one store, database or provider call to the
\* next, and other tasks run in between.  Suspend leaves it at its next call; End is its
\* return or its exception, with the provider calls it made and whether the block flag
\* of the message's sender was set when it made them.
Suspend(w, t, pc) == [w |-> w, t |-> [t EXCEPT !.pc = pc]]
Sent(w, sender_id) ==
    [i \in DOMAIN w.provider_calls |->
        [sender_id |-> sender_id, to |-> w.provider_calls[i].to,
         text |-> w.provider_calls[i].text, blocked |-> w.blocked_user[sender_id] # 0]]
End(out, t, sender_id) ==
    [w |-> out.w,
     t |-> [t EXCEPT !.pc = "done", !.exc = out.exc, !.val = out.val,
                     !.sent = Sent(out.w, sender_id)]]

Count(seq, ev) == Cardinality({i \in DOMAIN seq : seq[i] = ev})
Min(S) == CHOOSE x \in S : \A y \in S : x <= y

----------------------------------------------------------------------------
(* app/core/rule_engine.py *)

\* Cache first, then the users table; a missing row is FREE and is not cached; a row's
\* subscription_tier goes through UserTier(...), which raises on a value it does not have.
_get_user_tier(w0, user_id) ==
    LET w == T(w0, "_get_user_tier")
        cached == w.user_tier[user_id]
        user == w.users[user_id]
        tier == IF user.subscription_tier \notin {NULL, ""}
                THEN user.subscription_tier
                ELSE UserTier.FREE
    IN  IF cached # "none" THEN Ok(w, cached)
        ELSE IF ~user.exists THEN Ok(w, UserTier.FREE)
        ELSE IF tier \notin {UserTier.FREE, UserTier.PREMIUM, UserTier.ELITE}
        THEN Raise(w, "ValueError")
        ELSE Ok([w EXCEPT !.user_tier[user_id] = tier], tier)

\* The daily limits of CONTACT_RULES (lines 19-50); its other keys are not limits.
CONTACT_RULES ==
    [free |-> [daily_profile_views |-> 10, daily_interests |-> 5],
     premium |-> [daily_profile_views |-> 100, daily_interests |-> 50],
     elite |-> [daily_profile_views |-> -1, daily_interests |-> -1]]

\* What can be read with a dot from the dict _get_user_tier returns (lines 125, 132, 141):
\* the methods of dict.  "tier" is a key of it, read with ["tier"].
dict_attributes ==
    {"clear", "copy", "fromkeys", "get", "items", "keys", "pop", "popitem", "setdefault",
     "update", "values"}

\* A call of check_daily_limit that has ended: with a value, or with an exception.
Return(w, t, val) == [w |-> w, t |-> [t EXCEPT !.pc = "done", !.val = val]]
Throw(w, t, exc) == [w |-> w, t |-> [t EXCEPT !.pc = "done", !.exc = exc]]

\* Lines 81-94: the tier, the rules of user.tier, the limit of the action, and the read
\* of the day's counter, where the call is suspended.
check_daily_limit_81(w0, t) ==
    LET user == _get_user_tier(w0, t.user_id)
        rules == CONTACT_RULES[user.val]
        limit_key == "daily_" \o t.action
    IN  IF user.exc # "none" THEN Throw(user.w, t, user.exc)
        ELSE IF "tier" \notin dict_attributes THEN Throw(user.w, t, "AttributeError")
        ELSE IF limit_key \notin DOMAIN rules THEN Return(user.w, t, <<TRUE, -1>>)
        ELSE IF rules[limit_key] = -1 THEN Return(user.w, t, <<TRUE, -1>>)
        ELSE [w |-> user.w,
              t |-> [t EXCEPT !.pc = "line 95", !.limit = rules[limit_key],
                              !.count = user.w.daily_limit[t.user_id][t.action]]]

\* Lines 95-101: the count that was read against the limit, then the increment, where
\* the call is suspended again.
check_daily_limit_95(w, t) ==
    IF t.count >= t.limit THEN Return(w, t, <<FALSE, t.limit>>)
    ELSE [w |-> [w EXCEPT !.daily_limit[t.user_id][t.action] = @ + 1],
          t |-> [t EXCEPT !.pc = "line 102"]]

\* Lines 102-104: the counter's TTL of a day, and what is left of the limit.
check_daily_limit_102(w, t) == Return(w, t, <<TRUE, t.limit - t.count - 1>>)

\* The call, from where it stands to its next store call or to its end.
check_daily_limit(w, t) ==
    CASE t.pc = "line 81" -> check_daily_limit_81(w, t)
      [] t.pc = "line 95" -> check_daily_limit_95(w, t)
      [] t.pc = "line 102" -> check_daily_limit_102(w, t)

----------------------------------------------------------------------------
(* app/core/content_moderator.py *)

Verdict(approved, reason, requires_admin) ==
    [approved |-> approved, reason |-> reason, requires_admin |-> requires_admin]

\* First matching rule wins; None when no rule matches.
_check_harmful_patterns(message) ==
    IF message.h = {} THEN NULL ELSE HARMFUL_PATTERNS[Min(message.h)]

\* _check_suspicious_patterns escalating from the first matched rule on.
_check_suspicious_patterns_AnyMatch(message) ==
    IF Cardinality(message.s) >= 1
    THEN {SUSPICIOUS_PATTERNS[p] : p \in message.s}
    ELSE {}

\* The first three matched rules when two or more rules match, else None (here {}).
_check_suspicious_patterns(message) ==
    LET suspicious_count == Cardinality(message.s)
        matched_patterns ==
            {p \in message.s : Cardinality({q \in message.s : q < p}) < 3}
    IN  IF suspicious_count >= SuspiciousThreshold
        THEN {SUSPICIOUS_PATTERNS[p] : p \in matched_patterns}
        ELSE {}

\* gpt_result.startswith("UNSAFE")
StartsWithUNSAFE(reply) == Len(reply) > 0 /\ reply[1] = "UNSAFE"

\* _ai_moderate with an except branch that lets the message through.
_ai_moderate_FailOpen(w0, message) ==
    LET response == Call(T(w0, "_ai_moderate"), "openai.Moderation.create")
        gpt_response == Call(response.w, "openai.ChatCompletion.create")
        approved == [safe |-> TRUE, reason |-> "AI approved"]
    IN  IF Awaiting(response) THEN response
        ELSE IF response.exc # "none" THEN Ok(T(response.w, "_ai_moderate except"), approved)
        ELSE IF response.val = <<"flagged">>
        THEN Ok(response.w, [safe |-> FALSE, reason |-> "AI flagged"])
        ELSE IF Awaiting(gpt_response) THEN gpt_response
        ELSE IF gpt_response.exc # "none"
        THEN Ok(T(gpt_response.w, "_ai_moderate except"), approved)
        ELSE IF StartsWithUNSAFE(gpt_response.val)
        THEN Ok(gpt_response.w, [safe |-> FALSE, reason |-> "UNSAFE reply"])
        ELSE Ok(gpt_response.w, approved)

\* Both provider calls sit in one try; except Exception returns the unsafe verdict.
_ai_moderate(w0, message) ==
    LET response == Call(T(w0, "_ai_moderate"), "openai.Moderation.create")
        gpt_response == Call(response.w, "openai.ChatCompletion.create")
        unavailable == [safe |-> FALSE, reason |-> "AI moderation unavailable"]
    IN  IF Awaiting(response) THEN response
        ELSE IF response.exc # "none" THEN Ok(T(response.w, "_ai_moderate except"), unavailable)
        ELSE IF response.val = <<"flagged">>
        THEN Ok(response.w, [safe |-> FALSE, reason |-> "AI flagged"])
        ELSE IF Awaiting(gpt_response) THEN gpt_response
        ELSE IF gpt_response.exc # "none" THEN Ok(T(gpt_response.w, "_ai_moderate except"), unavailable)
        ELSE IF StartsWithUNSAFE(gpt_response.val)
        THEN Ok(gpt_response.w, [safe |-> FALSE, reason |-> "UNSAFE reply"])
        ELSE Ok(gpt_response.w, [safe |-> TRUE, reason |-> "AI approved"])

_is_blocked_user(w, user_id) ==
    Ok(T(w, "_is_blocked_user"), w.blocked_user[user_id] # 0)

\* The alert dict reads datetime.utcnow() and the push reads json, both module globals.
_alert_admin_critical(w0, sender_id) ==
    LET w == T(w0, "_alert_admin_critical")
    IN  IF "datetime" \notin content_moderator_globals THEN Raise(w, "NameError")
        ELSE IF "json" \notin content_moderator_globals THEN Raise(w, "NameError")
        ELSE Ok([T(w, "lpush admin_alerts") EXCEPT
                    !.admin_alerts = <<"critical">> \o @], NULL)

_alert_admin_review_needed(w0, sender_id) ==
    LET w == T(w0, "_alert_admin_review_needed")
    IN  IF "datetime" \notin content_moderator_globals THEN Raise(w, "NameError")
        ELSE IF "json" \notin content_moderator_globals THEN Raise(w, "NameError")
        ELSE Ok([T(w, "lpush admin_alerts") EXCEPT
                    !.admin_alerts = <<"medium">> \o @], NULL)

\* _log_violation that deletes the strike counter when it sets the block flag.
_log_violation_DeleteAtThreshold(w0, sender_id, severity) ==
    LET w1 == T(T(w0, "_log_violation"), "INSERT content_violations " \o severity)
        w2 == [T(w1, "incr violation_count") EXCEPT
                  !.content_violations[sender_id][severity] = @ + 1,
                  !.violation_count[sender_id] = @ + 1]
        count == w2.violation_count[sender_id]
    IN  IF count >= StrikeThreshold
        THEN _alert_admin_critical(
                 [T(w2, "setex blocked_user") EXCEPT
                     !.blocked_user[sender_id] = AutoBlockDays,
                     !.violation_count[sender_id] = 0],
                 sender_id)
        ELSE Ok(w2, NULL)

\* Insert and commit the row, increment the strike counter, and from the third strike on
\* set the block flag (7 days) and alert.  The counter is left as it is.
_log_violation(w0, sender_id, severity) ==
    LET w1 == T(T(w0, "_log_violation"), "INSERT content_violations " \o severity)
        w2 == [T(w1, "incr violation_count") EXCEPT
                  !.content_violations[sender_id][severity] = @ + 1,
                  !.violation_count[sender_id] = @ + 1]
        count == w2.violation_count[sender_id]
    IN  IF count >= StrikeThreshold
        THEN _alert_admin_critical(
                 [T(w2, "setex blocked_user") EXCEPT !.blocked_user[sender_id] = AutoBlockDays],
                 sender_id)
        ELSE Ok(w2, NULL)

_log_approved(w0, sender_id) ==
    Ok([T(T(w0, "_log_approved"), "INSERT whatsapp_message_log approved") EXCEPT
           !.whatsapp_message_log =
               Append(@, [sender_id |-> sender_id, whatsapp_message_id |-> NULL,
                          status |-> "approved"])],
       NULL)

\* json is imported locally; review_data reads datetime.utcnow(), a module global.
_queue_admin_review(w0, sender_id, recipient_id, message) ==
    LET w == T(w0, "_queue_admin_review")
        review_data == [sender_id |-> sender_id, recipient_id |-> recipient_id,
                        message |-> message,
                        timestamp |-> Len(w.whatsapp_admin_review_queue) + 1]
    IN  IF "datetime" \notin content_moderator_globals THEN Raise(w, "NameError")
        ELSE _alert_admin_review_needed(
                 [T(w, "lpush whatsapp_admin_review_queue") EXCEPT
                     !.whatsapp_admin_review_queue = <<review_data>> \o @],
                 sender_id)

\* Lines 77-83 and 97-103: record the violation, queue the message, ask for an admin.
flag_for_review(w, sender_id, recipient_id, message) ==
    LET lv == _log_violation(w, sender_id, "ai_flagged")
        q == _queue_admin_review(lv.w, sender_id, recipient_id, message)
    IN  IF lv.exc # "none" THEN lv
        ELSE IF q.exc # "none" THEN q
        ELSE Ok(q.w, Verdict(FALSE, "Message requires admin approval", TRUE))

\* Step 3 (lines 93-111): the AI check of every message that got this far, then approval.
moderate_step3(w, sender_id, recipient_id, message) ==
    LET ai_result == _ai_moderate(w, message)
        a == _log_approved(IF w.openai_enabled THEN ai_result.w ELSE w, sender_id)
    IN  IF w.openai_enabled /\ ai_result.exc # "none" THEN ai_result
        ELSE IF w.openai_enabled /\ ~ai_result.val.safe
        THEN flag_for_review(ai_result.w, sender_id, recipient_id, message)
        ELSE Ok(a.w, Verdict(TRUE, "Message approved", FALSE))

\* Step 2 (lines 70-91): two or more suspicious rules send the message to the AI filter,
\* or straight to the queue when there is no AI filter.
moderate_step2(w0, sender_id, recipient_id, message) ==
    LET w == T(w0, "_check_suspicious_patterns")
        suspicious_match == _check_suspicious_patterns(message)
        ai_result == _ai_moderate(w, message)
        q == _queue_admin_review(w, sender_id, recipient_id, message)
    IN  IF suspicious_match = {}
        THEN moderate_step3(w, sender_id, recipient_id, message)
        ELSE IF w.openai_enabled
        THEN IF ai_result.exc # "none" THEN ai_result
             ELSE IF ~ai_result.val.safe
             THEN flag_for_review(ai_result.w, sender_id, recipient_id, message)
             ELSE moderate_step3(ai_result.w, sender_id, recipient_id, message)
        ELSE IF q.exc # "none" THEN q
        ELSE Ok(q.w, Verdict(FALSE, "Message requires admin approval", TRUE))

\* moderate_message that logs a harmful match and goes on to the suspicious stage.
moderate_message_HarmfulContinues(w0, sender_id, recipient_id, message) ==
    LET b == _is_blocked_user(T(w0, "moderate_message"), sender_id)
        w == T(b.w, "_check_harmful_patterns")
        harmful_match == _check_harmful_patterns(message)
        lv == _log_violation(w, sender_id, "harmful")
    IN  IF b.val
        THEN Ok(b.w, Verdict(FALSE, "User blocked for policy violations", FALSE))
        ELSE IF harmful_match # NULL
        THEN IF lv.exc # "none" THEN lv
             ELSE moderate_step2(lv.w, sender_id, recipient_id, message)
        ELSE moderate_step2(w, sender_id, recipient_id, message)

\* Step 1 (lines 59-68): a harmful match is logged, alerted and refused.
moderate_step1(w0, sender_id, recipient_id, message) ==
    LET w == T(w0, "_check_harmful_patterns")
        harmful_match == _check_harmful_patterns(message)
        lv == _log_violation(w, sender_id, "harmful")
        al == _alert_admin_critical(lv.w, sender_id)
    IN  IF harmful_match # NULL
        THEN IF lv.exc # "none" THEN lv
             ELSE IF al.exc # "none" THEN al
             ELSE Ok(al.w, Verdict(FALSE, "Harmful content detected", FALSE))
        ELSE moderate_step2(w, sender_id, recipient_id, message)

\* The block check (lines 51-57), then the stages.
moderate_message(w0, sender_id, recipient_id, message) ==
    LET b == _is_blocked_user(T(w0, "moderate_message"), sender_id)
    IN  IF b.val
        THEN Ok(b.w, Verdict(FALSE, "User blocked for policy violations", FALSE))
        ELSE moderate_step1(b.w, sender_id, recipient_id, message)

----------------------------------------------------------------------------
(* app/core/whatsapp_sender.py *)

Result(status) == [status |-> status, message_id |-> NULL]

\* session.post: status 200 gives the message id, any other status raises.
_send_whatsapp_api(w0, phone, message) ==
    LET response == Call(T(w0, "_send_whatsapp_api"), "session.post")
        w == [response.w EXCEPT
                 !.provider_calls = Append(@, [to |-> phone, text |-> message])]
    IN  IF Awaiting(response) THEN response
        ELSE IF response.exc # "none" THEN Raise(w, "Exception")
        ELSE IF response.val = <<"200">> THEN Ok(w, [message_id |-> "wamid"])
        ELSE Raise(w, "Exception")

\* row[0] if row and row[0] else None
_get_user_whatsapp(w0, user_id) ==
    LET row == w0.users[user_id]
    IN  Ok(T(w0, "_get_user_whatsapp"),
           IF row.exists /\ row.whatsapp \notin {NULL, ""} THEN row.whatsapp ELSE NULL)

_log_sent_message(w0, sender_id, message_id) ==
    Ok([T(T(w0, "_log_sent_message"), "INSERT whatsapp_message_log sent") EXCEPT
           !.whatsapp_message_log =
               Append(@, [sender_id |-> sender_id, whatsapp_message_id |-> message_id,
                          status |-> "sent"])],
       NULL)

\* The alert dict reads datetime.utcnow(), a module global; json is imported locally.
_alert_admin_send_failure(w0, sender_id) ==
    LET w == T(w0, "_alert_admin_send_failure")
    IN  IF "datetime" \notin whatsapp_sender_globals THEN Raise(w, "NameError")
        ELSE Ok([T(w, "lpush admin_alerts") EXCEPT !.admin_alerts = <<"high">> \o @], NULL)

_alert_admin_high_cost(w0, user_id) ==
    LET w == T(w0, "_alert_admin_high_cost")
    IN  IF "datetime" \notin whatsapp_sender_globals THEN Raise(w, "NameError")
        ELSE Ok([T(w, "lpush admin_alerts") EXCEPT !.admin_alerts = <<"medium">> \o @], NULL)

\* The month key reads datetime.now(), a module global, before anything is incremented.
_track_cost(w0, user_id) ==
    LET w == T(w0, "_track_cost")
        w2 == [T(w, "incrbyfloat whatsapp_cost") EXCEPT
                  !.whatsapp_cost[user_id] = @ + CostPerMessage]
        cost == w2.whatsapp_cost[user_id]
    IN  IF "datetime" \notin whatsapp_sender_globals THEN Raise(w, "NameError")
        ELSE IF cost > CostAlertThreshold THEN _alert_admin_high_cost(w2, user_id)
        ELSE Ok(w2, NULL)

\* Step 4 (lines 58-83): the provider call, the log row and the cost sit in one try; the
\* except branch alerts and answers "failed".
send_step4(w, sender_id, recipient_phone, message) ==
    LET result == _send_whatsapp_api(w, recipient_phone, message)
        logged == _log_sent_message(result.w, sender_id, result.val.message_id)
        cost == _track_cost(logged.w, sender_id)
        failed_at == IF result.exc # "none" THEN result ELSE cost
        alert == _alert_admin_send_failure(T(failed_at.w, "send_message except"), sender_id)
    IN  IF ~w.enabled THEN Ok(w, Result("disabled"))
        ELSE IF Awaiting(result) THEN result
        ELSE IF failed_at.exc = "none"
        THEN Ok(cost.w, [status |-> "sent", message_id |-> result.val.message_id])
        ELSE IF alert.exc # "none" THEN alert
        ELSE Ok(alert.w, Result("failed"))

\* Lines 49-56 and on: what send_message does with the moderation result.
send_moderated(moderation_result, sender_id, recipient_phone, message) ==
    LET w == [moderation_result.w EXCEPT !.moderation_result = moderation_result.val]
    IN  IF moderation_result.exc # "none" THEN moderation_result
        ELSE IF ~moderation_result.val.approved
        THEN IF moderation_result.val.requires_admin
             THEN Ok(w, Result("pending_review"))
             ELSE Ok(w, Result("blocked"))
        ELSE send_step4(w, sender_id, recipient_phone, message)

\* send_message with the tier check after the moderation.
send_message_ModerateFirst(w0, sender_id, recipient_id, message) ==
    LET sender_tier == _get_user_tier(T(w0, "send_message"), sender_id)
        recipient_phone == _get_user_whatsapp(sender_tier.w, recipient_id)
        moderation_result ==
            moderate_message(recipient_phone.w, sender_id, recipient_id, message)
    IN  IF sender_tier.exc # "none" THEN sender_tier
        ELSE IF moderation_result.exc # "none" THEN moderation_result
        ELSE IF sender_tier.val \notin {UserTier.PREMIUM, UserTier.ELITE}
        THEN Ok(moderation_result.w, Result("forbidden"))
        ELSE IF recipient_phone.val = NULL
        THEN Ok(moderation_result.w, Result("no_whatsapp"))
        ELSE send_moderated(moderation_result, sender_id, recipient_phone.val, message)

\* send_message with the recipient's number looked at after the moderation.
send_message_NumberLast(w0, sender_id, recipient_id, message) ==
    LET sender_tier == _get_user_tier(T(w0, "send_message"), sender_id)
        recipient_phone == _get_user_whatsapp(sender_tier.w, recipient_id)
        moderation_result ==
            moderate_message(recipient_phone.w, sender_id, recipient_id, message)
    IN  IF sender_tier.exc # "none" THEN sender_tier
        ELSE IF sender_tier.val \notin {UserTier.PREMIUM, UserTier.ELITE}
        THEN Ok(sender_tier.w, Result("forbidden"))
        ELSE IF moderation_result.exc # "none" THEN moderation_result
        ELSE IF recipient_phone.val = NULL
        THEN Ok(moderation_result.w, Result("no_whatsapp"))
        ELSE send_moderated(moderation_result, sender_id, recipient_phone.val, message)

\* Steps 1-3 (lines 27-47): tier, recipient number, moderation.
send_message(w0, sender_id, recipient_id, message) ==
    LET sender_tier == _get_user_tier(T(w0, "send_message"), sender_id)
        recipient_phone == _get_user_whatsapp(sender_tier.w, recipient_id)
    IN  IF sender_tier.exc # "none" THEN sender_tier
        ELSE IF sender_tier.val \notin {UserTier.PREMIUM, UserTier.ELITE}
        THEN Ok(sender_tier.w, Result("forbidden"))
        ELSE IF recipient_phone.val = NULL
        THEN Ok(recipient_phone.w, Result("no_whatsapp"))
        ELSE send_moderated(
                 moderate_message(recipient_phone.w, sender_id, recipient_id, message),
                 sender_id, recipient_phone.val, message)

----------------------------------------------------------------------------
(* app/domains/whatsapp/api.py *)

\* POST /whatsapp/send as a task.  Lines 27-41 of send_message and the block check of
\* moderate_message (lines 51-57): tier, recipient number, block flag.
send_message_27(w0, t) ==
    LET sender_tier ==
            _get_user_tier(T(T(w0, "send_whatsapp_message"), "send_message"), t.user_id)
        recipient_phone == _get_user_whatsapp(sender_tier.w, t.recipient_id)
        b == _is_blocked_user(T(recipient_phone.w, "moderate_message"), t.user_id)
    IN  IF sender_tier.exc # "none" THEN End(sender_tier, t, t.user_id)
        ELSE IF sender_tier.val \notin {UserTier.PREMIUM, UserTier.ELITE}
        THEN End(Raise(sender_tier.w, "HTTP 403"), t, t.user_id)
        ELSE IF recipient_phone.val = NULL
        THEN End(Ok(recipient_phone.w, Result("no_whatsapp")), t, t.user_id)
        ELSE IF b.val THEN End(Raise(b.w, "HTTP 400"), t, t.user_id)
        ELSE Suspend(b.w, [t EXCEPT !.phone = recipient_phone.val], "line 59")

\* Lines 49-56 of send_message: a message that was not approved is answered at once.
send_message_49(moderation_result, t) ==
    IF moderation_result.exc # "none" THEN End(moderation_result, t, t.user_id)
    ELSE IF ~moderation_result.val.approved
    THEN IF moderation_result.val.requires_admin
         THEN End(Ok(moderation_result.w, Result("pending_review")), t, t.user_id)
         ELSE End(Raise(moderation_result.w, "HTTP 400"), t, t.user_id)
    ELSE Suspend(moderation_result.w, t, "line 58")

\* The stages of moderate_message behind the block check (lines 59-111).
send_message_59(w, t) ==
    send_message_49(moderate_step1(w, t.user_id, t.recipient_id, t.message), t)

\* Step 4 of send_message (lines 58-83): the provider call and what follows it.
send_message_58(w, t) ==
    End(send_step4(w, t.user_id, t.phone, t.message), t, t.user_id)

\* str(idx) for the list positions the model reaches
Str == [i \in 0 .. 9 |-> <<"0", "1", "2", "3", "4", "5", "6", "7", "8", "9">>[i + 1]]

\* lrem(key, 1, value): the first element equal to value, from the head, is removed.
LRem(list, value) ==
    LET hits == {i \in DOMAIN list : list[i] = value}
        first == Min(hits)
    IN  IF hits = {} THEN list
        ELSE [i \in 1 .. (Len(list) - 1) |-> IF i < first THEN list[i] ELSE list[i + 1]]

\* Lines 40-54: 403 for forbidden, 400 for blocked, else the result as it is.
send_response(result) ==
    IF result.exc # "none" THEN result
    ELSE IF result.val.status = "forbidden" THEN Raise(result.w, "HTTP 403")
    ELSE IF result.val.status = "blocked" THEN Raise(result.w, "HTTP 400")
    ELSE result

\* POST /whatsapp/send
send_whatsapp_message(w0, current_user, recipient_id, message) ==
    send_response(send_message(T(w0, "send_whatsapp_message"), current_user, recipient_id,
                               message))

\* from app.tasks.notifications import send_push_notification_task; then .delay(...)
notify_sender(w0, sender_id, title) ==
    LET w == T(w0, "import send_push_notification_task")
    IN  IF "send_push_notification_task" \notin tasks_notifications_names
        THEN Raise(w, "ImportError")
        ELSE Ok([T(w, "send_push_notification_task.delay") EXCEPT
                    !.notifications = Append(@, [to |-> sender_id, title |-> title])], NULL)

\* Lines 110-138: an approve sends the text through the provider, anything else rejects.
review_decide(w, review_data, decision) ==
    LET phone == _get_user_whatsapp(w, review_data.recipient_id)
        result == _send_whatsapp_api(phone.w, phone.val, review_data.message)
        approved == notify_sender(result.w, review_data.sender_id, "Message Approved")
        rejected == notify_sender(w, review_data.sender_id, "Message Rejected")
    IN  IF decision = "approve"
        THEN IF result.exc # "none" THEN result
             ELSE IF approved.exc # "none" THEN approved
             ELSE Ok(approved.w, [status |-> "approved_and_sent",
                                  message_id |-> result.val.message_id])
        ELSE IF rejected.exc # "none" THEN rejected
        ELSE Ok(rejected.w, Result("rejected"))

\* Lines 91-138: the decision is logged, then carried out.
review_resolve(w, review_data, decision) ==
    review_decide(
        [T(w, "INSERT whatsapp_admin_reviews") EXCEPT
            !.whatsapp_admin_reviews =
                Append(@, [sender_id |-> review_data.sender_id,
                           recipient_id |-> review_data.recipient_id,
                           message |-> review_data.message, decision |-> decision])],
        review_data, decision)

\* POST /whatsapp/admin/review (lines 77-108): the item whose position in the list, as a
\* string, equals review_id is removed; 404 when there is none; the decision is logged.
review_message(w0, review_id, decision) ==
    LET w == T(T(w0, "review_message"), "lrange whatsapp_admin_review_queue")
        reviews == w.whatsapp_admin_review_queue
        found == {idx \in 0 .. (Len(reviews) - 1) : Str[idx] = review_id}
        review_data == reviews[Min(found) + 1]
        w2 == [T(w, "lrem whatsapp_admin_review_queue") EXCEPT
                  !.whatsapp_admin_review_queue = LRem(@, review_data)]
    IN  IF found = {} THEN Raise(w, "HTTP 404")
        ELSE review_resolve(w2, review_data, decision)

\* POST /whatsapp/admin/review as a task.  Line 78 and the loop to its lrem: the list is
\* read, and the item at the position review_id is taken from what was read.
review_message_78(w0, t) ==
    LET w == T(T(w0, "review_message"), "lrange whatsapp_admin_review_queue")
        reviews == w.whatsapp_admin_review_queue
        found == {idx \in 0 .. (Len(reviews) - 1) : Str[idx] = t.review_id}
    IN  IF found = {} THEN End(Raise(w, "HTTP 404"), t, t.user_id)
        ELSE Suspend(w, [t EXCEPT !.review_data = reviews[Min(found) + 1]], "line 85")

\* The lrem of line 85 with its result looked at: 404 when it removed nothing.
review_message_85_Checked(w, t) ==
    IF \A i \in DOMAIN w.whatsapp_admin_review_queue :
           w.whatsapp_admin_review_queue[i] # t.review_data
    THEN End(Raise(T(w, "lrem whatsapp_admin_review_queue"), "HTTP 404"), t, t.user_id)
    ELSE Suspend([T(w, "lrem whatsapp_admin_review_queue") EXCEPT
                     !.whatsapp_admin_review_queue = LRem(@, t.review_data)],
                 t, "line 93")

\* Line 85: lrem on the list as it is by now; what it removed is not looked at.
review_message_85(w, t) ==
    Suspend([T(w, "lrem whatsapp_admin_review_queue") EXCEPT
                !.whatsapp_admin_review_queue = LRem(@, t.review_data)],
            t, "line 93")

\* Lines 91-138: the audit row, and the decision carried out.
review_message_93(w, t) ==
    End(review_resolve(w, t.review_data, t.decision), t, t.review_data.sender_id)

\* A task of the WhatsApp router, from where it stands to its next suspension.
whatsapp_task(w, t) ==
    CASE t.pc = "line 27" -> send_message_27(w, t)
      [] t.pc = "line 59" -> send_message_59(w, t)
      [] t.pc = "line 58" -> send_message_58(w, t)
      [] t.pc = "line 78" -> review_message_78(w, t)
      [] t.pc = "line 85" -> review_message_85(w, t)
      [] t.pc = "line 93" -> review_message_93(w, t)

\* GET /whatsapp/admin/pending-reviews: lrange(key, 0, 49), the list from its head on.
get_pending_reviews(w0) ==
    LET w == T(T(w0, "get_pending_reviews"), "lrange whatsapp_admin_review_queue")
        reviews == SubSeq(w.whatsapp_admin_review_queue, 1,
                          Min({Len(w.whatsapp_admin_review_queue), PendingPageSize}))
    IN  Ok(w, [pending_reviews |-> reviews, count |-> Len(reviews)])

\* POST /whatsapp/admin/block-user/{user_id}: the flag is set for 30 days.
block_user_whatsapp(w0, user_id) ==
    Ok([T(T(w0, "block_user_whatsapp"), "setex blocked_user") EXCEPT
           !.blocked_user[user_id] = ManualBlockDays],
       Result("blocked"))

\* DELETE /whatsapp/admin/unblock-user/{user_id}: the flag is deleted, nothing else.
unblock_user_whatsapp(w0, user_id) ==
    Ok([T(T(w0, "unblock_user_whatsapp"), "delete blocked_user") EXCEPT
           !.blocked_user[user_id] = 0],
       Result("unblocked"))

----------------------------------------------------------------------------
(* app/core/notification_handler.py *)

\* datetime.utcnow() of an alert: later than the newest alert on the list.
AlertClock(w) == IF w.admin_alerts = <<>> THEN 0 ELSE Head(w.admin_alerts).timestamp

\* Lines 216-238: lpush, then ltrim 0 .. 99; the e-mails to the admins are only logged.
_alert_admin(w0, subject) ==
    LET w == T(w0, "_alert_admin")
        admin_alert == [subject |-> subject, timestamp |-> AlertClock(w) + 1,
                        severity |-> "high"]
        pushed == <<admin_alert>> \o w.admin_alerts
    IN  Ok([T(T(w, "lpush admin_alerts"), "ltrim admin_alerts") EXCEPT
               !.admin_alerts = SubSeq(pushed, 1, Min({Len(pushed), AlertListSize}))],
           NULL)

_reset_failure_count(w0) ==
    Ok([T(T(w0, "_reset_failure_count"), "delete notification_failures") EXCEPT
           !.notification_failures = 0],
       NULL)

\* _handle_failure that leaves the counter as it is after the alert.
_handle_failure_NoReset(w0, channel) ==
    LET w1 == [T(T(T(w0, "_handle_failure"), "incr notification_failures"),
                 "expire notification_failures") EXCEPT !.notification_failures = @ + 1]
        count == w1.notification_failures
        w2 == T(w1, "_log_failure")
    IN  IF count >= admin_alert_threshold
        THEN _alert_admin(w2, "Notification failures threshold reached")
        ELSE Ok(w2, NULL)

\* Lines 180-195: incr and expire, the failure row (its own errors are swallowed), and
\* from the threshold on the alert and the delete of the counter.
_handle_failure(w0, channel) ==
    LET w1 == [T(T(T(w0, "_handle_failure"), "incr notification_failures"),
                 "expire notification_failures") EXCEPT !.notification_failures = @ + 1]
        count == w1.notification_failures
        w2 == T(w1, "_log_failure")
    IN  IF count >= admin_alert_threshold
        THEN Ok([T(_alert_admin(w2, "Notification failures threshold reached").w,
                   "delete notification_failures") EXCEPT !.notification_failures = 0],
                NULL)
        ELSE Ok(w2, NULL)

\* The success branch of the three senders: the counter is deleted, the result returned.
send_succeeded(w) == Ok(_reset_failure_count(w).w, Result("success"))
\* Their except branch, once _handle_failure has returned.
send_failed(handled) == Ok(handled.w, Result("failed"))

\* Lines 22-32: on a failure the coroutine _alert_admin(...) is made but never awaited.
initialize_fcm(w0) ==
    LET cred == Call(T(w0, "initialize_fcm"), "credentials.Certificate")
    IN  IF Awaiting(cred) THEN cred
        ELSE IF cred.exc # "none" THEN Ok(cred.w, Result("not initialized"))
        ELSE Ok([cred.w EXCEPT !.fcm_initialized = TRUE], Result("initialized"))

\* Lines 34-56.  _send_fcm answers "success" whenever send_multicast returns.
send_push(w0, user_id) ==
    LET tokens == Call(T(w0, "send_push"), "_get_device_tokens")
        response == Call(T(tokens.w, "_send_fcm"), "messaging.send_multicast")
    IN  IF Awaiting(tokens) THEN tokens
        ELSE IF tokens.exc # "none" THEN send_failed(_handle_failure(tokens.w, "push"))
        ELSE IF tokens.val = <<>> THEN Ok(tokens.w, Result("no_devices"))
        ELSE IF ~w0.fcm_initialized
        THEN Ok(T(tokens.w, "_queue_for_retry"), Result("queued_retry"))
        ELSE IF Awaiting(response) THEN response
        ELSE IF response.exc # "none" THEN send_failed(_handle_failure(response.w, "push"))
        ELSE IF Len(response.val) > 1
        THEN send_succeeded(T(response.w, "_deactivate_tokens"))
        ELSE send_succeeded(response.w)

\* Lines 85-101.
send_sms(w0, phone) ==
    LET result == Call(T(w0, "send_sms"), "SMSSender.send")
    IN  IF Awaiting(result) THEN result
        ELSE IF result.exc = "none" /\ result.val = <<"success">>
        THEN send_succeeded(result.w)
        ELSE send_failed(_handle_failure(result.w, "sms"))

\* Lines 75-83: after the failure was handled, the SMS fallback when the user has a phone.
send_email_fallback(handled, user_id) ==
    LET phone == Call(T(handled.w, "send_email except"), "_get_user_phone")
    IN  IF Awaiting(phone) THEN phone
        ELSE IF phone.exc # "none" \/ phone.val = <<>> THEN send_failed(phone)
        ELSE send_sms(phone.w, phone.val)

\* Lines 58-83.
send_email(w0, user_id) ==
    LET result == Call(T(w0, "send_email"), "EmailSender.send")
    IN  IF Awaiting(result) THEN result
        ELSE IF result.exc = "none" /\ result.val = <<"success">>
        THEN send_succeeded(result.w)
        ELSE send_email_fallback(_handle_failure(result.w, "email"), user_id)

----------------------------------------------------------------------------
(* The state machine *)

NoMessage == [h |-> {}, s |-> {}]
NoVerdict == Verdict(FALSE, NULL, FALSE)
NoReview == [review_id |-> NULL, decision |-> NULL]

\* The world a request starts in: the state, the provider answers it has been given, and
\* nothing done yet.
World(answers) ==
    [users |-> users, openai_enabled |-> openai_enabled, enabled |-> enabled,
     blocked_user |-> blocked_user, violation_count |-> violation_count,
     user_tier |-> user_tier, whatsapp_admin_review_queue |-> whatsapp_admin_review_queue,
     admin_alerts |-> admin_alerts, whatsapp_cost |-> whatsapp_cost,
     content_violations |-> content_violations,
     whatsapp_admin_reviews |-> whatsapp_admin_reviews,
     notification_failures |-> notification_failures,
     fcm_initialized |-> fcm_initialized, daily_limit |-> daily_limit,
     answers |-> answers, trace |-> <<>>, provider_calls |-> <<>>, notifications |-> <<>>,
     whatsapp_message_log |-> <<>>, moderation_result |-> NoVerdict]

\* What is kept of a request: its inputs, the state it started in, the review that the
\* request before it resolved (if it resolved one), how it ended, what it did.
Record(op, user_id, recipient_id, message, review_id, decision, answers, out) ==
    [op |-> op, user_id |-> user_id, recipient_id |-> recipient_id, message |-> message,
     review_id |-> review_id, decision |-> decision, answers |-> answers,
     blocked_before |-> blocked_user[user_id] # 0,
     violation_count_before |-> violation_count[user_id],
     whatsapp_cost_before |-> whatsapp_cost[user_id],
     queue_before |-> whatsapp_admin_review_queue,
     admin_alerts_before |-> admin_alerts,
     notification_failures_before |-> notification_failures,
     previous |-> IF Awaiting(ret) THEN ret.previous
                  ELSE IF /\ ret.op = "review_message"
                          /\ Len(whatsapp_admin_review_queue) < Len(ret.queue_before)
                  THEN [review_id |-> ret.review_id, decision |-> ret.decision]
                  ELSE NoReview,
     exc |-> out.exc,
     status |-> IF out.exc = "none" /\ op # "get_pending_reviews"
                THEN out.val.status
                ELSE NULL,
     pending_reviews |-> IF op = "get_pending_reviews"
                         THEN out.val.pending_reviews
                         ELSE <<>>,
     trace |-> out.w.trace, provider_calls |-> out.w.provider_calls,
     notifications |-> out.w.notifications,
     whatsapp_message_log |-> out.w.whatsapp_message_log,
     moderation_result |-> out.w.moderation_result]

\* The state after a request: what the handler left in the world, or the state as it was
\* while the handler waits for a provider; and the record of the request.
Finish(op, user_id, recipient_id, message, review_id, decision, answers, out) ==
    LET w == out.w
        done == ~Awaiting(out)
    IN  /\ blocked_user' = IF done THEN w.blocked_user ELSE blocked_user
        /\ violation_count' = IF done THEN w.violation_count ELSE violation_count
        /\ user_tier' = IF done THEN w.user_tier ELSE user_tier
        /\ whatsapp_admin_review_queue' =
               IF done THEN w.whatsapp_admin_review_queue ELSE whatsapp_admin_review_queue
        /\ admin_alerts' = IF done THEN w.admin_alerts ELSE admin_alerts
        /\ whatsapp_cost' = IF done THEN w.whatsapp_cost ELSE whatsapp_cost
        /\ content_violations' = IF done THEN w.content_violations ELSE content_violations
        /\ whatsapp_admin_reviews' =
               IF done THEN w.whatsapp_admin_reviews ELSE whatsapp_admin_reviews
        /\ notification_failures' =
               IF done THEN w.notification_failures ELSE notification_failures
        /\ fcm_initialized' = IF done THEN w.fcm_initialized ELSE fcm_initialized
        /\ ret' = Record(op, user_id, recipient_id, message, review_id, decision, answers,
                         out)
        /\ UNCHANGED <<users, openai_enabled, enabled, daily_limit, tasks>>

Run(op, user_id, recipient_id, message, review_id, decision, answers) ==
    CASE op = "send_message" ->
             send_whatsapp_message(World(answers), user_id, recipient_id, message)
      [] op = "review_message" -> review_message(World(answers), review_id, decision)
      [] op = "block_user" -> block_user_whatsapp(World(answers), user_id)
      [] op = "unblock_user" -> unblock_user_whatsapp(World(answers), user_id)
      [] op = "get_pending_reviews" -> get_pending_reviews(World(answers))
      [] op = "initialize_fcm" -> initialize_fcm(World(answers))
      [] op = "send_push" -> send_push(World(answers), user_id)
      [] op = "send_email" -> send_email(World(answers), user_id)
      [] op = "send_sms" -> send_sms(World(answers), <<"+91">>)

Request(op, user_id, recipient_id, message, review_id, decision, answers) ==
    Finish(op, user_id, recipient_id, message, review_id, decision, answers,
           Run(op, user_id, recipient_id, message, review_id, decision, answers))

\* Three user tables: every shape of row the tier and number lookups tell apart.
Row(tier, whatsapp) == [exists |-> TRUE, subscription_tier |-> tier, whatsapp |-> whatsapp]
NoRow == [exists |-> FALSE, subscription_tier |-> NULL, whatsapp |-> NULL]
UserTables ==
    { [u \in UserIds |-> IF u = 1 THEN Row("premium", "+911") ELSE Row("free", "+912")],
      [u \in UserIds |-> IF u = 1 THEN Row("elite", "+911") ELSE Row(NULL, NULL)],
      [u \in UserIds |-> IF u = 1 THEN Row("premium", "+911") ELSE NoRow] }

InitStore ==
    /\ users \in UserTables
    /\ openai_enabled \in BOOLEAN
    /\ enabled \in BOOLEAN
    /\ blocked_user = [u \in UserIds |-> 0]
    /\ violation_count = [u \in UserIds |-> 0]
    /\ user_tier = [u \in UserIds |-> "none"]
    /\ admin_alerts = <<>>
    /\ whatsapp_cost = [u \in UserIds |-> 0]
    /\ content_violations = [u \in UserIds |-> [harmful |-> 0, ai_flagged |-> 0]]
    /\ whatsapp_admin_reviews = <<>>
    /\ notification_failures = 0
    /\ fcm_initialized = FALSE
    /\ daily_limit = [u \in UserIds |-> [a \in LimitedActions |-> 0]]
    /\ tasks = [p \in Tasks |-> IdleTask]
    /\ ret = [op |-> "init", user_id |-> 1, recipient_id |-> 1, message |-> NoMessage,
              review_id |-> NULL, decision |-> NULL, answers |-> <<>>,
              blocked_before |-> FALSE, violation_count_before |-> 0,
              whatsapp_cost_before |-> 0, queue_before |-> <<>>,
              admin_alerts_before |-> <<>>, notification_failures_before |-> 0,
              previous |-> NoReview,
              exc |-> "none",
              status |-> NULL, pending_reviews |-> <<>>, trace |-> <<>>,
              provider_calls |-> <<>>,
              notifications |-> <<>>, whatsapp_message_log |-> <<>>,
              moderation_result |-> NoVerdict]

Init ==
    /\ InitStore
    /\ whatsapp_admin_review_queue = <<>>

\* The review list as requests that were queued left it: the items _queue_admin_review
\* builds (lines 237-243) for messages the suspicious stage escalates, newest first.
QueuedMessages ==
    {m \in Messages : m.h = {} /\ Cardinality(m.s) >= SuspiciousThreshold}
ReviewQueues ==
    UNION {{[i \in 1 .. n |-> [sender_id |-> 1, recipient_id |-> r[i], message |-> m[i],
                               timestamp |-> n + 1 - i]] :
               r \in [1 .. n -> UserIds], m \in [1 .. n -> QueuedMessages]} :
           n \in 0 .. MaxQueue}

InitReview ==
    /\ InitStore
    /\ whatsapp_admin_review_queue \in ReviewQueues

SendWhatsAppMessage ==
    /\ ~Awaiting(ret)
    /\ \E current_user \in UserIds, recipient_id \in UserIds, message \in Messages :
           /\ violation_count[current_user] < MaxStrikes
           /\ Request("send_message", current_user, recipient_id, message, NULL, NULL, <<>>)

ReviewMessage ==
    /\ ~Awaiting(ret)
    /\ \E review_id \in {Str[i] : i \in 0 .. MaxQueue} \cup {"x"},
          decision \in {"approve", "reject", "later"} :
           Request("review_message", 1, 1, NoMessage, review_id, decision, <<>>)

GetPendingReviews ==
    /\ ~Awaiting(ret)
    /\ Request("get_pending_reviews", 1, 1, NoMessage, NULL, NULL, <<>>)

BlockUser ==
    /\ ~Awaiting(ret)
    /\ \E user_id \in UserIds :
           Request("block_user", user_id, 1, NoMessage, NULL, NULL, <<>>)

UnblockUser ==
    /\ ~Awaiting(ret)
    /\ \E user_id \in UserIds :
           Request("unblock_user", user_id, 1, NoMessage, NULL, NULL, <<>>)

\* The provider answers the call the pending request waits for.
Answer ==
    /\ Awaiting(ret)
    /\ \E a \in Answers(ret.exc) :
           Request(ret.op, ret.user_id, ret.recipient_id, ret.message, ret.review_id,
                   ret.decision, Append(ret.answers, a))

\* The store drops a block flag whose TTL has run out.
ExpireKey ==
    /\ ~Awaiting(ret)
    /\ \E user_id \in UserIds :
           /\ blocked_user[user_id] # 0
           /\ blocked_user' = [blocked_user EXCEPT ![user_id] = 0]
           /\ ret' = Record("expire", user_id, 1, NoMessage, NULL, NULL, <<>>,
                            Ok(World(<<>>), Result("expired")))
    /\ UNCHANGED <<users, openai_enabled, enabled, violation_count, user_tier,
                   whatsapp_admin_review_queue, admin_alerts, whatsapp_cost,
                   content_violations, whatsapp_admin_reviews, notification_failures,
                   fcm_initialized, daily_limit, tasks>>

\* The notification handler at work: the three senders, the FCM set-up, and the store
\* dropping the failure counter when its hour is over.
InitializeFcm ==
    /\ ~Awaiting(ret)
    /\ Request("initialize_fcm", 1, 1, NoMessage, NULL, NULL, <<>>)

SendPush ==
    /\ ~Awaiting(ret)
    /\ AlertClock(World(<<>>)) < MaxAlerts
    /\ Request("send_push", 1, 1, NoMessage, NULL, NULL, <<>>)

SendEmail ==
    /\ ~Awaiting(ret)
    /\ AlertClock(World(<<>>)) < MaxAlerts
    /\ Request("send_email", 1, 1, NoMessage, NULL, NULL, <<>>)

SendSms ==
    /\ ~Awaiting(ret)
    /\ AlertClock(World(<<>>)) < MaxAlerts
    /\ Request("send_sms", 1, 1, NoMessage, NULL, NULL, <<>>)

ExpireFailures ==
    /\ ~Awaiting(ret)
    /\ notification_failures # 0
    /\ notification_failures' = 0
    /\ ret' = Record("expire", 1, 1, NoMessage, NULL, NULL, <<>>,
                     Ok(World(<<>>), Result("expired")))
    /\ UNCHANGED <<users, openai_enabled, enabled, blocked_user, violation_count,
                   user_tier, whatsapp_admin_review_queue, admin_alerts, whatsapp_cost,
                   content_violations, whatsapp_admin_reviews, fcm_initialized,
                   daily_limit, tasks>>

\* The engagement endpoints at work: a call of check_daily_limit starts, or one that
\* is suspended at a store call goes on to its next one.
CheckDailyLimit ==
    \E p \in Tasks, user_id \in UserIds, action \in LimitedActions :
        LET t == IF tasks[p].pc = "idle"
                 THEN [pc |-> "line 81", op |-> "check_daily_limit", user_id |-> user_id,
                       action |-> action, limit |-> 0, count |-> 0, exc |-> "none",
                       val |-> NULL]
                 ELSE tasks[p]
            out == check_daily_limit(World(<<>>), t)
        IN  /\ tasks[p].pc # "done"
            /\ t.user_id = user_id
            /\ t.action = action
            /\ tasks' = [tasks EXCEPT ![p] = out.t]
            /\ user_tier' = out.w.user_tier
            /\ daily_limit' = out.w.daily_limit
            /\ UNCHANGED <<users, openai_enabled, enabled, blocked_user, violation_count,
                           whatsapp_admin_review_queue, admin_alerts, whatsapp_cost,
                           content_violations, whatsapp_admin_reviews,
                           notification_failures, fcm_initialized, ret>>

\* The caller has taken the outcome of a call that ended.
TaskDone ==
    \E p \in Tasks :
        /\ tasks[p].pc = "done"
        /\ tasks' = [tasks EXCEPT ![p] = IdleTask]
        /\ UNCHANGED <<users, openai_enabled, enabled, blocked_user, violation_count,
                       user_tier, whatsapp_admin_review_queue, admin_alerts, whatsapp_cost,
                       content_violations, whatsapp_admin_reviews, notification_failures,
                       fcm_initialized, daily_limit, ret>>

\* The state after a run of a task: what the run left in the store and the tables.
Commit(p, out) ==
    /\ tasks' = [tasks EXCEPT ![p] = out.t]
    /\ blocked_user' = out.w.blocked_user
    /\ violation_count' = out.w.violation_count
    /\ user_tier' = out.w.user_tier
    /\ whatsapp_admin_review_queue' = out.w.whatsapp_admin_review_queue
    /\ admin_alerts' = out.w.admin_alerts
    /\ whatsapp_cost' = out.w.whatsapp_cost
    /\ content_violations' = out.w.content_violations
    /\ whatsapp_admin_reviews' = out.w.whatsapp_admin_reviews
    /\ UNCHANGED <<users, openai_enabled, enabled, notification_failures,
                   fcm_initialized, daily_limit, ret>>

\* A task that has just arrived: no number looked up, no item taken from the list.
NoItem == [sender_id |-> 0, recipient_id |-> 0, message |-> NoMessage, timestamp |-> 0]
NewTask(op, pc, user_id, recipient_id, message, review_id, decision) ==
    [pc |-> pc, op |-> op, user_id |-> user_id, recipient_id |-> recipient_id,
     message |-> message, review_id |-> review_id, decision |-> decision, phone |-> NULL,
     review_data |-> NoItem, exc |-> "none", val |-> NULL, sent |-> <<>>]

\* The users whose messages can come to the provider, and the messages that take the
\* pattern stages' two ways out without the AI filter: clean and harmful.
Senders == {u \in UserIds : users[u].subscription_tier \in {UserTier.PREMIUM, UserTier.ELITE}}
TaskMessages == {m \in Messages : m.s = {}}

\* POST /whatsapp/send arrives, from a sender who has not struck out to another user,
\* and runs to its first suspension behind the block check.
StartSend ==
    \E p \in Tasks, current_user \in Senders, recipient_id \in UserIds,
       message \in TaskMessages :
        /\ tasks[p].pc = "idle"
        /\ recipient_id # current_user
        /\ violation_count[current_user] < StrikeThreshold
        /\ Commit(p, whatsapp_task(World(<<>>),
                                   NewTask("send_message", "line 27", current_user,
                                           recipient_id, message, NULL, NULL)))

\* POST /whatsapp/admin/review arrives and reads the list.
StartReview ==
    \E p \in Tasks, review_id \in {Str[i] : i \in 0 .. MaxQueue - 1},
       decision \in {"approve", "reject"} :
        /\ tasks[p].pc = "idle"
        /\ Commit(p, whatsapp_task(World(<<>>),
                                   NewTask("review_message", "line 78", 1, 1, NoMessage,
                                           review_id, decision)))

\* A suspended task goes on; the provider call it may make is answered.
Resume ==
    \E p \in Tasks, a \in Answers("await session.post") :
        /\ tasks[p].pc \notin {"idle", "done"}
        /\ Commit(p, whatsapp_task(World(<<a>>), tasks[p]))

\* The admin's block and unblock, each one store call, while tasks are in flight.  A
\* deleted flag is also what a flag whose TTL has run out leaves.
AdminBlock ==
    \E user_id \in Senders :
        /\ blocked_user' = block_user_whatsapp(World(<<>>), user_id).w.blocked_user
        /\ UNCHANGED <<users, openai_enabled, enabled, violation_count, user_tier,
                       whatsapp_admin_review_queue, admin_alerts, whatsapp_cost,
                       content_violations, whatsapp_admin_reviews, notification_failures,
                       fcm_initialized, daily_limit, tasks, ret>>

AdminUnblock ==
    \E user_id \in Senders :
        /\ blocked_user' = unblock_user_whatsapp(World(<<>>), user_id).w.blocked_user
        /\ UNCHANGED <<users, openai_enabled, enabled, violation_count, user_tier,
                       whatsapp_admin_review_queue, admin_alerts, whatsapp_cost,
                       content_violations, whatsapp_admin_reviews, notification_failures,
                       fcm_initialized, daily_limit, tasks, ret>>

Next ==
    \/ SendWhatsAppMessage
    \/ ReviewMessage
    \/ GetPendingReviews
    \/ BlockUser
    \/ UnblockUser
    \/ Answer
    \/ ExpireKey

Spec == Init /\ [][Next]_vars

\* An admin's session on a review list that holds items: reviews, and the provider's
\* answers to them.
NextReview ==
    \/ ReviewMessage
    \/ GetPendingReviews
    \/ Answer

SpecReview == InitReview /\ [][NextReview]_vars

\* The notification handler on its own: of the store it shares only admin_alerts with the
\* WhatsApp gate.
InitNotify ==
    /\ Init
    /\ users = [u \in UserIds |-> IF u = 1 THEN Row("premium", "+911") ELSE NoRow]
    /\ openai_enabled
    /\ enabled

NextNotify ==
    \/ InitializeFcm
    \/ SendPush
    \/ SendEmail
    \/ SendSms
    \/ Answer
    \/ ExpireFailures

SpecNotify == InitNotify /\ [][NextNotify]_vars

\* The daily limits on their own: calls of check_daily_limit, interleaved at their store
\* calls.
InitLimit ==
    /\ Init
    /\ openai_enabled
    /\ enabled

NextLimit ==
    \/ CheckDailyLimit
    \/ TaskDone

SpecLimit == InitLimit /\ [][NextLimit]_vars

\* The WhatsApp router serving requests concurrently: sends and reviews as tasks that
\* interleave at their suspension points, while an admin blocks and unblocks.  The
\* review list holds what earlier requests queued: messages to another user that
\* matched as many suspicious rules as it takes.
InitRace ==
    /\ InitReview
    /\ whatsapp_admin_review_queue # <<>>
    /\ \A i \in DOMAIN whatsapp_admin_review_queue :
           /\ whatsapp_admin_review_queue[i].recipient_id # whatsapp_admin_review_queue[i].sender_id
           /\ whatsapp_admin_review_queue[i].message.s = 1 .. SuspiciousThreshold
    /\ users = [u \in UserIds |-> IF u = 1 THEN Row("premium", "+911") ELSE Row("free", "+912")]
    /\ ~openai_enabled
    /\ enabled

NextRace ==
    \/ StartSend
    \/ StartReview
    \/ Resume
    \/ TaskDone
    \/ AdminBlock
    \/ AdminUnblock

SpecRace == InitRace /\ [][NextRace]_vars

----------------------------------------------------------------------------
(* Properties *)

\* The last request has run to its end.
Done == ~Awaiting(ret)
InTrace(ev) == Count(ret.trace, ev) > 0
\* The last request was a send whose handler called moderate_message.
Moderated == ret.op = "send_message" /\ Done /\ InTrace("moderate_message")
\* moderate_message returned a verdict to send_message.
Returned == ret.moderation_result.reason # NULL
\* The tier lookup of this sender answers free: no row, or a row with no paid tier.
FreeSender(u) ==
    ~users[u].exists \/ users[u].subscription_tier \in {NULL, "", UserTier.FREE}
\* The answers to one _ai_moderate call that make it unsafe without raising.
AIUnsafe(answers) ==
    /\ answers # <<>>
    /\ \/ answers[1] = Returns(<<"flagged">>)
       \/ /\ Len(answers) >= 2
          /\ answers[1] = Returns(<<"clean">>)
          /\ ~answers[2].raises
          /\ StartsWithUNSAFE(answers[2].words)
\* The answers to one _ai_moderate call in which a provider call raises.
AIRaising ==
    {<<Raises>>} \cup {<<Returns(<<"clean">>), Raises>>}
\* The provider accepted the one message the last request handed to it.
Delivered ==
    /\ Len(ret.provider_calls) = 1
    /\ ret.answers # <<>>
    /\ ret.answers[Len(ret.answers)] = Returns(<<"200">>)
\* The last request was a review that took an item off the list, and the item.
Resolved ==
    /\ ret.op = "review_message"
    /\ Done
    /\ Len(whatsapp_admin_review_queue) < Len(ret.queue_before)
ReviewedItem ==
    ret.queue_before[CHOOSE i \in DOMAIN ret.queue_before : Str[i - 1] = ret.review_id]

\* C1: a message that matches a harmful rule, from a sender with no block flag, gets the
\* verdict approved = false, requires_admin = false from moderate_message, with exactly one
\* content_violations row of severity harmful written, nothing put on the review list and
\* no whatsapp_message_log row.
C1_HarmfulRefused ==
    (Moderated /\ ret.message.h # {} /\ ~ret.blocked_before) =>
        /\ Returned
        /\ ~ret.moderation_result.approved
        /\ ~ret.moderation_result.requires_admin
        /\ Count(ret.trace, "INSERT content_violations harmful") = 1
        /\ Count(ret.trace, "INSERT content_violations ai_flagged") = 0
        /\ whatsapp_admin_review_queue = ret.queue_before
        /\ ret.whatsapp_message_log = <<>>

\* C2: in every state a sender with three or more strikes has a block flag, and a
\* moderation started for such a sender is refused as blocked without the pattern
\* stages, the AI filter or a violation row.
C2_StruckSenderBlocked ==
    /\ \A u \in UserIds : violation_count[u] >= StrikeThreshold => blocked_user[u] # 0
    /\ (Moderated /\ ret.violation_count_before >= StrikeThreshold) =>
           /\ ret.moderation_result =
                  Verdict(FALSE, "User blocked for policy violations", FALSE)
           /\ ~InTrace("_check_harmful_patterns")
           /\ ~InTrace("_check_suspicious_patterns")
           /\ ~InTrace("_ai_moderate")
           /\ ~InTrace("_log_violation")

\* C3: for a sender whose tier is free or who has no user row, send_message answers
\* forbidden before any content inspection: no moderate_message, no pattern scan, no AI
\* call, no violation, no strike, no review item, no message log row, no provider call.
\* It holds of send_message in every reachable state and of every send request made.
C3_FreeTierForbiddenFirst ==
    /\ \A u \in UserIds, r \in UserIds, m \in Messages :
           FreeSender(u) =>
               LET out == send_message(World(<<>>), u, r, m)
               IN  /\ out.exc = "none"
                   /\ out.val.status = "forbidden"
                   /\ Count(out.w.trace, "moderate_message") = 0
                   /\ out.w.violation_count = violation_count
                   /\ out.w.content_violations = content_violations
                   /\ out.w.whatsapp_admin_review_queue = whatsapp_admin_review_queue
                   /\ out.w.whatsapp_message_log = <<>>
                   /\ out.w.provider_calls = <<>>
    /\ (ret.op = "send_message" /\ Done /\ FreeSender(ret.user_id)) =>
           /\ ret.exc = "HTTP 403"
           /\ ~InTrace("moderate_message")
           /\ ~InTrace("_check_harmful_patterns")
           /\ ~InTrace("_check_suspicious_patterns")
           /\ ~InTrace("_ai_moderate")
           /\ ~InTrace("_log_violation")
           /\ violation_count[ret.user_id] = ret.violation_count_before
           /\ whatsapp_admin_review_queue = ret.queue_before
           /\ ret.whatsapp_message_log = <<>>
           /\ ret.provider_calls = <<>>
           /\ ret.answers = <<>>

\* C3 happens: a free sender's message that matches a harmful rule ended forbidden.
C3_Witness ==
    /\ ret.op = "send_message"
    /\ Done
    /\ FreeSender(ret.user_id)
    /\ ret.message.h # {}
    /\ ret.exc = "HTTP 403"

\* C4: when a provider call inside _ai_moderate raises, _ai_moderate returns safe = false
\* with reason "AI moderation unavailable" and raises nothing itself; and a request in
\* which that happened does not approve the message: no approved verdict, no approved
\* row, no provider call.
C4_AIFailureFailsClosed ==
    /\ \A m \in Messages, answers \in AIRaising :
           LET out == _ai_moderate(World(answers), m)
           IN  /\ out.exc = "none"
               /\ out.val = [safe |-> FALSE, reason |-> "AI moderation unavailable"]
    /\ (ret.op = "send_message" /\ Done /\ InTrace("_ai_moderate except")) =>
           /\ ~ret.moderation_result.approved
           /\ ~InTrace("_log_approved")
           /\ ret.whatsapp_message_log = <<>>
           /\ ret.provider_calls = <<>>
           /\ ret.exc # "Exception"

\* C4 happens: a send request in which a provider call of _ai_moderate raised has ended.
C4_Witness ==
    /\ ret.op = "send_message"
    /\ Done
    /\ InTrace("_ai_moderate except")
    /\ ret.answers[Len(ret.answers)] = Raises

\* C5: a message that matches no harmful rule and at most one suspicious rule is not
\* escalated: _check_suspicious_patterns returns no match, and with no AI filter
\* configured moderate_message approves it and puts nothing on the review list.
C5_FewSuspiciousNotEscalated ==
    /\ \A m \in Messages :
           Cardinality(m.s) <= 1 => _check_suspicious_patterns(m) = {}
    /\ (/\ Moderated
        /\ ~ret.blocked_before
        /\ ret.message.h = {}
        /\ Cardinality(ret.message.s) <= 1
        /\ ~openai_enabled) =>
           /\ ret.moderation_result = Verdict(TRUE, "Message approved", FALSE)
           /\ ~InTrace("_queue_admin_review")
           /\ whatsapp_admin_review_queue = ret.queue_before

\* C5 happens: with no AI filter, a message matching exactly one suspicious rule was
\* moderated and approved.
C5_Witness ==
    /\ Moderated
    /\ ~openai_enabled
    /\ ret.message.h = {}
    /\ Cardinality(ret.message.s) = 1
    /\ ret.moderation_result.approved

\* C6: a message that matches two or more suspicious rules and no harmful rule, from an
\* unblocked sender, with the AI filter configured and answering unsafe, is put on the
\* review list, gets approved = false, requires_admin = true, and the request ends
\* pending_review with no provider call.
C6_UnsafeEscalationQueued ==
    (/\ Moderated
     /\ ~ret.blocked_before
     /\ ret.message.h = {}
     /\ Cardinality(ret.message.s) >= SuspiciousThreshold
     /\ openai_enabled
     /\ AIUnsafe(ret.answers)) =>
        /\ Len(whatsapp_admin_review_queue) = Len(ret.queue_before) + 1
        /\ ret.moderation_result = Verdict(FALSE, "Message requires admin approval", TRUE)
        /\ ret.status = "pending_review"
        /\ ret.provider_calls = <<>>

\* C7: a message that matches two or more suspicious rules and no harmful rule, from an
\* unblocked sender, with no AI filter configured, puts exactly one item on the review
\* list and gets approved = false, requires_admin = true; it is neither approved nor sent.
C7_ManualFallbackQueued ==
    (/\ Moderated
     /\ ~ret.blocked_before
     /\ ret.message.h = {}
     /\ Cardinality(ret.message.s) >= SuspiciousThreshold
     /\ ~openai_enabled) =>
        /\ Len(whatsapp_admin_review_queue) = Len(ret.queue_before) + 1
        /\ Head(whatsapp_admin_review_queue).message = ret.message
        /\ ret.moderation_result = Verdict(FALSE, "Message requires admin approval", TRUE)
        /\ ~InTrace("_log_approved")
        /\ ret.provider_calls = <<>>

\* C8: an approve of the review id that the request before it resolved with approve, with
\* items still on the list, sends nothing and takes nothing off the list.
C8_SecondResolveIsNoOp ==
    (/\ ret.op = "review_message"
     /\ Done
     /\ ret.decision = "approve"
     /\ ret.previous = [review_id |-> ret.review_id, decision |-> "approve"]
     /\ ret.queue_before # <<>>) =>
        /\ ret.provider_calls = <<>>
        /\ whatsapp_admin_review_queue = ret.queue_before

\* C9: an approve that resolves an item, with the provider accepting the message, makes
\* exactly one provider call with the item's text to the recipient's number, writes
\* exactly one whatsapp_message_log row with status sent-after-review, and notifies the
\* item's sender exactly once.
C9_ApproveRoundTrip ==
    (Resolved /\ ret.decision = "approve" /\ Delivered) =>
        /\ ret.provider_calls =
               <<[to |-> _get_user_whatsapp(World(<<>>), ReviewedItem.recipient_id).val,
                  text |-> ReviewedItem.message]>>
        /\ Len(ret.whatsapp_message_log) = 1
        /\ ret.whatsapp_message_log[1].status = "sent-after-review"
        /\ Len(ret.notifications) = 1
        /\ ret.notifications[1].to = ReviewedItem.sender_id

\* C10: a send that the provider accepted adds the per-message cost to the sender's
\* ledger of the month (so N such sends leave N times the cost), no request lowers a
\* ledger, and a send that leaves the ledger over the threshold raises the high-cost
\* alert.
C10_CostLedger ==
    /\ Done => whatsapp_cost[ret.user_id] >= ret.whatsapp_cost_before
    /\ (ret.op = "send_message" /\ Done /\ Delivered) =>
           /\ whatsapp_cost[ret.user_id] = ret.whatsapp_cost_before + CostPerMessage
           /\ whatsapp_cost[ret.user_id] > CostAlertThreshold =>
                  InTrace("_alert_admin_high_cost")

\* C11: an approve in which the provider call raised or was refused leaves the review
\* list as it was before the request: the item is still there to be resolved again.
C11_FailedApproveKeepsItem ==
    (/\ ret.op = "review_message"
     /\ Done
     /\ ret.decision = "approve"
     /\ Len(ret.provider_calls) = 1
     /\ ret.exc = "Exception") =>
        whatsapp_admin_review_queue = ret.queue_before

\* C12: the page of pending reviews lists the items by arrival, oldest first, and the
\* position an admin resolves by is the position in that order: a listing shows every
\* earlier item before a later one, and review id "0" takes the oldest item of the list.
C12_ReviewQueueFIFO ==
    /\ (ret.op = "get_pending_reviews" /\ Done) =>
           \A i, j \in DOMAIN ret.pending_reviews :
               i < j => ret.pending_reviews[i].timestamp < ret.pending_reviews[j].timestamp
    /\ (Resolved /\ ret.review_id = "0") =>
           \A i \in DOMAIN ret.queue_before :
               ReviewedItem.timestamp <= ret.queue_before[i].timestamp

\* An alerting function put its alert at the head of the list and the list kept at most
\* the newest 100 alerts, the older ones in their order.
AlertPushed(out) ==
    /\ out.exc = "none"
    /\ Len(out.w.admin_alerts) = Min({Len(admin_alerts) + 1, AlertListSize})
    /\ \A i \in 2 .. Len(out.w.admin_alerts) : out.w.admin_alerts[i] = admin_alerts[i - 1]

Failures == Count(ret.trace, "_handle_failure")

\* C14: the failure counter is below 10 in every state between requests; _handle_failure
\* adds one to it, and in the call that brings it to 10 (and in no other) one alert of
\* severity high is put on the alert list and the counter is deleted; a push, e-mail or
\* SMS request that ends in success leaves the counter at zero.
C14_FailureCounter ==
    /\ notification_failures < admin_alert_threshold
    /\ LET out == _handle_failure(World(<<>>), "push")
           reached == notification_failures + 1 >= admin_alert_threshold
       IN  /\ out.exc = "none"
           /\ out.w.notification_failures =
                  IF reached THEN 0 ELSE notification_failures + 1
           /\ Count(out.w.trace, "expire notification_failures") = 1
           /\ Count(out.w.trace, "_alert_admin") = IF reached THEN 1 ELSE 0
    /\ (Done /\ Failures > 0) =>
           LET reached ==
                   ret.notification_failures_before + Failures >= admin_alert_threshold
           IN  /\ Count(ret.trace, "_alert_admin") = IF reached THEN 1 ELSE 0
               /\ reached =>
                      /\ Head(admin_alerts).severity = "high"
                      /\ Head(admin_alerts) \notin
                             {ret.admin_alerts_before[i] : i \in DOMAIN ret.admin_alerts_before}
               /\ ~reached => admin_alerts = ret.admin_alerts_before
               /\ ret.status # "success" =>
                      notification_failures =
                          (ret.notification_failures_before + Failures)
                              % admin_alert_threshold
    /\ (Done /\ ret.op \in {"send_push", "send_email", "send_sms"}
             /\ ret.status = "success") =>
           /\ InTrace("_reset_failure_count")
           /\ notification_failures = 0

\* C14 happens: a request whose failure was the tenth has ended: the alert is on the list
\* and the counter is gone.
C14_Witness ==
    /\ Done
    /\ Failures = 1
    /\ ret.notification_failures_before = admin_alert_threshold - 1
    /\ InTrace("_alert_admin")
    /\ admin_alerts # ret.admin_alerts_before
    /\ notification_failures = 0

\* C15: the sender sees one response per coarse outcome.  Every send refused for policy
\* (a block flag on the sender, or a harmful rule matched) is answered with the same HTTP
\* 400; every send that is escalated to review (two or more suspicious rules with no AI
\* filter or an AI filter that does not clear it, or an AI filter that flags it) is answered
\* with the same pending_review result; every reject of an item sends the same one
\* notification, "Message Rejected".
C15_CoarseResponses ==
    /\ (Moderated /\ (ret.blocked_before \/ ret.message.h # {})) =>
           ret.exc = "HTTP 400"
    /\ (/\ Moderated
        /\ ~ret.blocked_before
        /\ ret.message.h = {}
        /\ \/ openai_enabled /\ InTrace("_ai_moderate") /\ ~InTrace("_log_approved")
           \/ ~openai_enabled /\ Cardinality(ret.message.s) >= SuspiciousThreshold) =>
           /\ ret.exc = "none"
           /\ ret.status = "pending_review"
    /\ (Resolved /\ ret.decision = "reject") =>
           /\ Len(ret.notifications) = 1
           /\ ret.notifications[1].title = "Message Rejected"

\* C16: with the sender disabled no request makes a provider call, and a send request
\* whose message the moderation approved was moderated and ends with status disabled.
C16_DisabledNeverCallsProvider ==
    /\ ~enabled => ret.provider_calls = <<>>
    /\ ~enabled => ~InTrace("session.post")
    /\ (/\ ret.op = "send_message"
        /\ Done
        /\ ~enabled
        /\ ret.moderation_result.approved) =>
           /\ InTrace("moderate_message")
           /\ ret.exc = "none"
           /\ ret.status = "disabled"

\* C17: a reject that resolves an item takes exactly that item off the list, writes one
\* whatsapp_admin_reviews row (of that item, decision reject), notifies the item's sender
\* once of the rejection and makes no provider call; and a decision that is neither
\* approve nor reject resolves nothing: the list and the audit table stay as they were.
C17_RejectResolves ==
    /\ (Resolved /\ ret.decision = "reject") =>
           /\ whatsapp_admin_review_queue = LRem(ret.queue_before, ReviewedItem)
           /\ Len(whatsapp_admin_review_queue) = Len(ret.queue_before) - 1
           /\ Count(ret.trace, "INSERT whatsapp_admin_reviews") = 1
           /\ whatsapp_admin_reviews[Len(whatsapp_admin_reviews)] =
                  [sender_id |-> ReviewedItem.sender_id,
                   recipient_id |-> ReviewedItem.recipient_id,
                   message |-> ReviewedItem.message, decision |-> "reject"]
           /\ ret.notifications =
                  <<[to |-> ReviewedItem.sender_id, title |-> "Message Rejected"]>>
           /\ ret.provider_calls = <<>>
           /\ ~InTrace("_send_whatsapp_api")
    /\ (/\ ret.op = "review_message"
        /\ Done
        /\ ret.decision \notin {"approve", "reject"}) =>
           /\ whatsapp_admin_review_queue = ret.queue_before
           /\ ~InTrace("INSERT whatsapp_admin_reviews")

\* What the moderation of the last request wrote: content_violations rows, review items,
\* approved rows of whatsapp_message_log.
ViolationRecords ==
    Count(ret.trace, "INSERT content_violations harmful")
        + Count(ret.trace, "INSERT content_violations ai_flagged")
AdminReviewItems == Len(whatsapp_admin_review_queue) - Len(ret.queue_before)
ApprovedRows == Count(ret.trace, "INSERT whatsapp_message_log approved")

\* C18: a moderate_message call that returned a verdict wrote its one audit artifact: for
\* an approved message one approved row of whatsapp_message_log and nothing else, for a
\* refused or escalated message a content_violations row or a review item (at most one
\* of each) and no approved row.  No verdict is returned with nothing written.
C18_OneAuditArtifact ==
    (Moderated /\ Returned) =>
        IF ret.moderation_result.approved
        THEN ApprovedRows = 1 /\ ViolationRecords = 0 /\ AdminReviewItems = 0
        ELSE /\ ApprovedRows = 0
             /\ ViolationRecords <= 1
             /\ AdminReviewItems <= 1
             /\ ViolationRecords + AdminReviewItems >= 1

\* C19: the strike that brings a sender's counter to 3 sets the block flag and deletes
\* the counter: no counter is ever left at 3 or more, and a moderation sets the flag only
\* for a sender who had two strikes before it, so one violation after the block has ended
\* does not block again.
C19_StrikesReplacedByFlag ==
    /\ \A u \in UserIds : violation_count[u] < StrikeThreshold
    /\ (Moderated /\ InTrace("setex blocked_user")) =>
           /\ ret.violation_count_before = StrikeThreshold - 1
           /\ violation_count[ret.user_id] = 0

\* The stages of moderate_message, and where the last request ran each of them.
Stages ==
    <<"_is_blocked_user", "_check_harmful_patterns", "_check_suspicious_patterns",
      "_ai_moderate">>
StageAt(k) == {i \in DOMAIN ret.trace : ret.trace[i] = Stages[k]}

\* C20: in a moderation the block check, the harmful scan, the suspicious scan and the AI
\* check run in this order, a stage only after every stage before it; and a message that
\* matches a harmful rule goes no further than the harmful scan, whatever suspicious
\* rules it matches: no suspicious scan, no AI call, no review item.
C20_StagesInOrder ==
    /\ (ret.op = "send_message" /\ InTrace("moderate_message")) =>
           \A a, b \in DOMAIN Stages :
               a < b =>
                   /\ \A i \in StageAt(a), j \in StageAt(b) : i < j
                   /\ StageAt(b) # {} => StageAt(a) # {}
    /\ (Moderated /\ ret.message.h # {}) =>
           /\ ~InTrace("_check_suspicious_patterns")
           /\ ~InTrace("_ai_moderate")
           /\ ~InTrace("openai.Moderation.create")
           /\ ret.answers = <<>>
           /\ ~InTrace("_queue_admin_review")
           /\ whatsapp_admin_review_queue = ret.queue_before
           /\ ~ret.moderation_result.requires_admin

\* C20 happens: with the AI filter configured, a message matching a harmful rule and two
\* suspicious rules, from a sender with no block flag, went through the harmful scan.
C20_Witness ==
    /\ Moderated
    /\ openai_enabled
    /\ ~ret.blocked_before
    /\ ret.message.h # {}
    /\ Cardinality(ret.message.s) >= SuspiciousThreshold
    /\ InTrace("_check_harmful_patterns")
    /\ InTrace("_log_violation")

\* The two answers to one _ai_moderate call that make it safe.
AISafe(answers) ==
    /\ Len(answers) >= 2
    /\ answers[1] = Returns(<<"clean">>)
    /\ ~answers[2].raises
    /\ ~StartsWithUNSAFE(answers[2].words)
\* The last request was the moderation, with the AI filter configured, of a message that
\* passed the block check and the harmful scan.
AIModerated ==
    Moderated /\ openai_enabled /\ ~ret.blocked_before /\ ret.message.h = {}

\* C21: with the AI filter configured, every message that passes the block check and the
\* harmful scan is classified by the AI filter; a message the suspicious stage escalated
\* is approved only after two classifications that both answered safe; and when a
\* classification answers unsafe, one content_violations row of severity ai_flagged and
\* one review item are written and the verdict is approved = false, requires_admin = true.
C21_BlanketAICheck ==
    /\ AIModerated => InTrace("_ai_moderate")
    /\ (/\ AIModerated
        /\ Cardinality(ret.message.s) >= SuspiciousThreshold
        /\ ret.moderation_result.approved) =>
           /\ Count(ret.trace, "_ai_moderate") = 2
           /\ Len(ret.answers) >= 4
           /\ AISafe(SubSeq(ret.answers, 1, 2))
           /\ AISafe(SubSeq(ret.answers, 3, 4))
    /\ (AIModerated /\ ~InTrace("_log_approved")) =>
           /\ Count(ret.trace, "INSERT content_violations ai_flagged") = 1
           /\ Len(whatsapp_admin_review_queue) = Len(ret.queue_before) + 1
           /\ ret.moderation_result = Verdict(FALSE, "Message requires admin approval", TRUE)

\* The replies of the contextual call that are a SAFE verdict.
StartsWithSAFE(reply) == Len(reply) > 0 /\ reply[1] = "SAFE"

\* C22: _ai_moderate answers safe only when the categorical classifier flags nothing and
\* the reply of the contextual call begins with SAFE; a reply that begins with neither
\* SAFE nor UNSAFE, such as an empty one, is not answered safe, and a message classified
\* on such a reply is not approved.
C22_NoVerdictIsNotSafe ==
    /\ \A m \in Messages, a1 \in Answers("await openai.Moderation.create"),
          a2 \in Answers("await openai.ChatCompletion.create") :
           LET out == _ai_moderate(World(<<a1, a2>>), m)
           IN  (out.exc = "none" /\ out.val.safe) =>
                   /\ a1 = Returns(<<"clean">>)
                   /\ ~a2.raises
                   /\ StartsWithSAFE(a2.words)
    /\ (/\ AIModerated
        /\ Len(ret.answers) >= 2
        /\ ret.answers[1] = Returns(<<"clean">>)
        /\ ret.answers[2] = Returns(<<>>)) =>
           ~ret.moderation_result.approved

\* C24: no request calls the provider more than once; and an approve whose provider call
\* failed is recorded and alerted as a send failure and the item is not put back on the
\* list.
C24_NoRetryFailureAlerted ==
    /\ Len(ret.provider_calls) <= 1
    /\ Count(ret.trace, "session.post") <= 1
    /\ (/\ ret.op = "review_message"
        /\ Done
        /\ ret.decision = "approve"
        /\ Len(ret.provider_calls) = 1
        /\ ret.exc = "Exception") =>
           /\ InTrace("_alert_admin_send_failure")
           /\ Len(admin_alerts) = Len(ret.admin_alerts_before) + 1
           /\ Len(whatsapp_admin_review_queue) = Len(ret.queue_before) - 1

\* C27: a send request is answered failed only when its provider call failed; when the
\* provider accepted the message the request is answered sent, with one sent row of
\* whatsapp_message_log that carries the provider's message id and one cost increment.
C27_SentWhenProviderAccepted ==
    /\ (ret.op = "send_message" /\ Done /\ ret.status = "failed") =>
           /\ Len(ret.provider_calls) = 1
           /\ ret.answers[Len(ret.answers)] # Returns(<<"200">>)
    /\ (ret.op = "send_message" /\ Done /\ Delivered) =>
           /\ ret.exc = "none"
           /\ ret.status = "sent"
           /\ Count(ret.trace, "INSERT whatsapp_message_log sent") = 1
           /\ ret.whatsapp_message_log[Len(ret.whatsapp_message_log)] =
                  [sender_id |-> ret.user_id, whatsapp_message_id |-> "wamid",
                   status |-> "sent"]
           /\ whatsapp_cost[ret.user_id] = ret.whatsapp_cost_before + CostPerMessage

\* The last request was a finished send by a premium or elite sender; the recipient of
\* the last request has a WhatsApp number.
EntitledSend == ret.op = "send_message" /\ Done /\ ~FreeSender(ret.user_id)
RecipientHasNumber ==
    users[ret.recipient_id].exists /\ users[ret.recipient_id].whatsapp \notin {NULL, ""}

\* C28 as stated: every send request of a premium or elite sender is moderated, whatever
\* the recipient's state; a harmful message of an unblocked sender to a recipient with no
\* number leaves a content_violations row and a strike.
C28_EverySendModerated ==
    /\ EntitledSend => InTrace("moderate_message")
    /\ (EntitledSend /\ ~ret.blocked_before /\ ret.message.h # {}) =>
           /\ ViolationRecords = 1
           /\ violation_count[ret.user_id] = ret.violation_count_before + 1

\* C28, amended: a send request of a premium or elite sender is moderated when the
\* recipient has a WhatsApp number, and then a harmful message of an unblocked sender
\* leaves a content_violations row and a strike; when the recipient has no number the
\* request is answered no_whatsapp before any moderation: nothing is scanned, no row and
\* no strike are written.
C28_ModeratedWhenRecipientHasNumber ==
    /\ (EntitledSend /\ RecipientHasNumber) =>
           /\ InTrace("moderate_message")
           /\ (~ret.blocked_before /\ ret.message.h # {}) =>
                  /\ ViolationRecords = 1
                  /\ violation_count[ret.user_id] = ret.violation_count_before + 1
    /\ (EntitledSend /\ ~RecipientHasNumber) =>
           /\ ret.exc = "none"
           /\ ret.status = "no_whatsapp"
           /\ ~InTrace("moderate_message")
           /\ ~InTrace("_check_harmful_patterns")
           /\ ViolationRecords = 0
           /\ violation_count[ret.user_id] = ret.violation_count_before

\* C28 happens: a premium or elite sender's harmful message to a recipient with no number
\* was answered no_whatsapp.
C28_Witness ==
    /\ EntitledSend
    /\ ~RecipientHasNumber
    /\ ~ret.blocked_before
    /\ ret.message.h # {}
    /\ ret.status = "no_whatsapp"

\* C29: in every state a sender's strike counter equals the number of that sender's
\* content_violations rows of both severities; a request changes the counter only through
\* _log_violation, by one for each row it writes (an ai_flagged row written on the
\* verdict "AI moderation unavailable" included), and never lowers it.
C29_StrikesEqualViolations ==
    /\ \A u \in UserIds :
           violation_count[u] =
               content_violations[u].harmful + content_violations[u].ai_flagged
    /\ Done =>
           /\ violation_count[ret.user_id] >= ret.violation_count_before
           /\ violation_count[ret.user_id] = ret.violation_count_before + ViolationRecords
           /\ ViolationRecords = Count(ret.trace, "_log_violation")
           /\ ViolationRecords = Count(ret.trace, "incr violation_count")
    /\ (Moderated /\ InTrace("_ai_moderate except")) =>
           /\ Count(ret.trace, "INSERT content_violations ai_flagged") = 1
           /\ violation_count[ret.user_id] = ret.violation_count_before + 1

\* C29 happens: a provider call of the AI filter raised, the ai_flagged row was written
\* and the sender's counter went up by one.
C29_Witness ==
    /\ Moderated
    /\ InTrace("_ai_moderate except")
    /\ Count(ret.trace, "INSERT content_violations ai_flagged") = 1
    /\ violation_count[ret.user_id] = ret.violation_count_before + 1

\* The limit check_daily_limit applies to a user's action: the one of the tier
\* _get_user_tier finds for the user's row.
TierOf(u) ==
    IF users[u].exists /\ users[u].subscription_tier \notin {NULL, ""}
    THEN users[u].subscription_tier
    ELSE UserTier.FREE
LimitOf(u, a) == CONTACT_RULES[TierOf(u)]["daily_" \o a]

\* C30: a call of check_daily_limit ends with a value: (True, -1) for a user without a
\* limit, whose counter it never touches; for a user with the limit L either a grant
\* (True, r) with r in 0 .. L-1 or the refusal (False, L); the counter, which counts
\* the grants, never passes L; and two grants of the same user and action that are
\* held together never report the same remainder, whatever the interleaving.
C30_DailyLimitGrants ==
    \A p \in Tasks :
        tasks[p].pc = "done" =>
            LET t == tasks[p]
                L == LimitOf(t.user_id, t.action)
            IN  /\ t.exc = "none"
                /\ IF L = -1
                   THEN /\ t.val = <<TRUE, -1>>
                        /\ daily_limit[t.user_id][t.action] = 0
                   ELSE /\ t.val \in {<<TRUE, r>> : r \in 0 .. L - 1} \cup {<<FALSE, L>>}
                        /\ daily_limit[t.user_id][t.action] <= L
                        /\ \A q \in Tasks \ {p} :
                               /\ tasks[q].pc = "done"
                               /\ tasks[q].user_id = t.user_id
                               /\ tasks[q].action = t.action
                               /\ t.val[1]
                               => tasks[q].val # t.val

\* The review calls that have run to their end after taking an item from the list they
\* read.
ReviewsDone ==
    {p \in Tasks : /\ tasks[p].pc = "done"
                   /\ tasks[p].op = "review_message"
                   /\ tasks[p].review_data # NoItem}

\* C23: a review call acts on the item it found at the position review_id in the list it
\* read, whatever its lrem removed from the list as it was by then: the call never ends
\* as not found, its audit row is written, and an approve makes its one provider call
\* with the item's text.  So two calls with the same review_id can both act on one item.
C23_ResolveIgnoresRemoval ==
    \A p \in ReviewsDone :
        LET t == tasks[p]
        IN  /\ t.exc # "HTTP 404"
            /\ \E i \in DOMAIN whatsapp_admin_reviews :
                   whatsapp_admin_reviews[i] =
                       [sender_id |-> t.review_data.sender_id,
                        recipient_id |-> t.review_data.recipient_id,
                        message |-> t.review_data.message, decision |-> t.decision]
            /\ t.decision = "approve" =>
                   /\ Len(t.sent) = 1
                   /\ t.sent[1].text = t.review_data.message

\* Two approve calls with the same review_id have both sent the one item that was at
\* that position, and the provider took it both times (each call came as far as the
\* import that follows the send): the message was sent twice.
C23_Witness ==
    \E p \in ReviewsDone, q \in ReviewsDone :
        /\ p # q
        /\ tasks[p].review_id = tasks[q].review_id
        /\ tasks[p].review_data = tasks[q].review_data
        /\ tasks[p].decision = "approve"
        /\ tasks[q].decision = "approve"
        /\ Len(tasks[p].sent) = 1
        /\ Len(tasks[q].sent) = 1
        /\ tasks[p].sent[1].text = tasks[p].review_data.message
        /\ tasks[q].sent[1].text = tasks[p].review_data.message
        /\ tasks[p].exc = "ImportError"
        /\ tasks[q].exc = "ImportError"

\* C25: no task, send or approve, has made a provider call with a sender's message
\* while that sender's block flag was set.
C25_NoSendWhileBlocked ==
    \A p \in Tasks :
        tasks[p].pc = "done" =>
            \A i \in DOMAIN tasks[p].sent : ~tasks[p].sent[i].blocked

\* C26: a block flag set for 30 days by the admin is never replaced by the 7-day flag of
\* the auto-ban.
C26_ManualBlockKept ==
    [][\A u \in UserIds :
           blocked_user[u] = ManualBlockDays => blocked_user'[u] # AutoBlockDays]_vars

====
